---- MODULE Spec2Model ----
(***************************************************************************)
(* The sorted-reduceat aggregation kernel of flox (flox/aggregate_flox.py) *)
(* as a state machine: a caller holds group codes, data, size and          *)
(* fill_value, calls one named reduction, and receives an array or an      *)
(* exception (Spec). Beside it: a call of xarray_reduce of flox/xarray.py  *)
(* (XarraySpec), cohort discovery (CohortSpec) and the blockwise rechunk   *)
(* (RechunkSpec).                                                          *)
(*                                                                         *)
(* Arrays are sequences; array positions are the 0-based positions of the  *)
(* source (position i of the source is element i+1 of the sequence).       *)
(* float64 values are exact rationals plus +inf, -inf and NaN with the     *)
(* IEEE rules for the special values; rounding is not modelled.            *)
(***************************************************************************)
EXTENDS Integers, Sequences, FiniteSets, TLC

VARIABLES
    group_codes, \* the caller's group codes, one per element of data
    data,        \* the caller's data along the reduction axis
    ngroups,     \* the size argument: the number of groups
    fill,        \* the fill_value argument
    func,        \* the reduction called, "none" before the call
    qarg,        \* the q argument of the call (None when not given)
    karg,        \* the k argument of the call (None when not given)
    result,      \* what the call returned or raised
    xr_args,     \* the arguments of a call of xarray_reduce
    xr_pc,       \* where that call stands
    xr_i,        \* the grouper, then the data variable, it is working on
    xr_error,    \* the exception it raised, "" when none
    xr_calls,    \* the calls of groupby_reduce it made, in order
    co_bitmask,  \* cohort discovery: the labels present in each chunk
    co_cohorts,  \* the cohorts formed so far
    co_pc,       \* where cohort discovery stands
    rc_labels,   \* blockwise rechunk: the labels along the dimension
    rc_chunks,   \* the chunk lengths of the array handed in
    rc_result,   \* the chunk lengths of the array returned
    rc_pc        \* where the rechunk stands

xr_vars == <<xr_args, xr_pc, xr_i, xr_error, xr_calls>>

co_vars == <<co_bitmask, co_cohorts, co_pc>>

rc_vars == <<rc_labels, rc_chunks, rc_result, rc_pc>>

vars == <<group_codes, data, ngroups, fill, func, qarg, karg, result,
          xr_vars, co_vars, rc_vars>>

----------------------------------------------------------------------------
(* float64 values *)

NaN == [kind |-> "nan", n |-> 0, d |-> 1]
INF == [kind |-> "inf", n |-> 1, d |-> 1]
NINF == [kind |-> "inf", n |-> -1, d |-> 1]
None == [kind |-> "none", n |-> 0, d |-> 1]

Abs(x) == IF x < 0 THEN -x ELSE x

RECURSIVE GCD(_, _)
GCD(a, b) == IF b = 0 THEN a ELSE GCD(b, a % b)

\* the rational n/d, d > 0, in lowest terms
Rat(n, d) ==
    LET g == GCD(Abs(n), d)
    IN [kind |-> "fin", n |-> n \div g, d |-> d \div g]

Fin(n) == [kind |-> "fin", n |-> n, d |-> 1]

Sign(a) == IF a.n > 0 THEN 1 ELSE IF a.n < 0 THEN -1 ELSE 0

isnull(a) == a.kind = "nan"

notnull(a) == ~isnull(a)

negative(a) ==
    IF a.kind = "nan" THEN NaN
    ELSE IF a.kind = "inf" THEN [a EXCEPT !.n = -a.n]
    ELSE Rat(-a.n, a.d)

add(a, b) ==
    IF a.kind = "nan" \/ b.kind = "nan" THEN NaN
    ELSE IF a.kind = "inf" /\ b.kind = "inf" THEN (IF a.n = b.n THEN a ELSE NaN)
    ELSE IF a.kind = "inf" THEN a
    ELSE IF b.kind = "inf" THEN b
    ELSE Rat(a.n * b.d + b.n * a.d, a.d * b.d)

subtract(a, b) == add(a, negative(b))

multiply(a, b) ==
    IF a.kind = "nan" \/ b.kind = "nan" THEN NaN
    ELSE IF a.kind = "inf" \/ b.kind = "inf"
         THEN (IF Sign(a) * Sign(b) = 0 THEN NaN
               ELSE IF Sign(a) * Sign(b) > 0 THEN INF ELSE NINF)
    ELSE Rat(a.n * b.n, a.d * b.d)

\* a / b for a divisor b >= 0 (a count); x/0 is +-inf, 0/0 is NaN
true_divide(a, b) ==
    IF a.kind = "nan" \/ b.kind = "nan" THEN NaN
    ELSE IF b.kind = "inf" THEN (IF a.kind = "inf" THEN NaN ELSE Fin(0))
    ELSE IF b.n = 0
         THEN (IF Sign(a) = 0 THEN NaN ELSE IF Sign(a) > 0 THEN INF ELSE NINF)
    ELSE IF a.kind = "inf" THEN a
    ELSE Rat(a.n * b.d, a.d * b.n)

\* IEEE a < b and a == b: false when either side is NaN
less(a, b) ==
    /\ a.kind # "nan" /\ b.kind # "nan"
    /\ IF a.kind = "inf" THEN a.n < 0 /\ b # a
       ELSE IF b.kind = "inf" THEN b.n > 0
       ELSE a.n * b.d < b.n * a.d

equal(a, b) == a.kind # "nan" /\ b.kind # "nan" /\ a = b

\* np.maximum / np.minimum: NaN propagates
maximum(a, b) ==
    IF a.kind = "nan" \/ b.kind = "nan" THEN NaN ELSE IF less(a, b) THEN b ELSE a

minimum(a, b) ==
    IF a.kind = "nan" \/ b.kind = "nan" THEN NaN ELSE IF less(b, a) THEN b ELSE a

\* floor and ceil of a finite value, as integers
floor(a) == a.n \div a.d

ceil(a) == -((-a.n) \div a.d)

\* storing a Python scalar into a float64 array: None becomes NaN
asfloat(v) == IF v.kind = "none" THEN NaN ELSE v

----------------------------------------------------------------------------
(* results of a call *)

Ok(out) == [status |-> "ok", out |-> out]

Raise(exc) == [status |-> exc, out |-> <<>>]

NoResult == [status |-> "none", out |-> <<>>]

----------------------------------------------------------------------------
(* array helpers *)

Range(s) == {s[i] : i \in 1..Len(s)}

\* 0-based positions 0 .. n-1 as a sequence (np.arange)
arange(n) == [i \in 1..n |-> i - 1]

\* (mask.nonzero())[0]: the 0-based positions where mask holds, ascending
nonzero(mask) == SelectSeq(arange(Len(mask)), LAMBDA i : mask[i + 1])

\* a[mask] for a boolean mask of the same length
compress(a, mask) == [j \in 1..Len(nonzero(mask)) |-> a[nonzero(mask)[j] + 1]]

\* a[..., perm] for an index array perm
take(a, perm) == [j \in 1..Len(perm) |-> a[perm[j] + 1]]

\* group_idx.argsort(kind="stable"): position r of the result holds the index
\* of the element of rank r, equal elements keeping their original order
argsort(s) ==
    LET rank(i) == Cardinality({j \in 1..Len(s) :
                        s[j] < s[i] \/ (s[j] = s[i] /\ j < i)})
    IN [r \in 1..Len(s) |-> (CHOOSE i \in 1..Len(s) : rank(i) = r - 1) - 1]

\* a block handed on as it came, never sorted
_prepare_for_flox_unsorted(group_idx, array) ==
    IF Len(array) # Len(group_idx)
    THEN [status |-> "AssertionError", group_idx |-> <<>>,
          ordered_array |-> <<>>, perm |-> <<>>]
    ELSE [status |-> "ok", group_idx |-> group_idx,
          ordered_array |-> array, perm |-> arange(Len(group_idx))]

_prepare_for_flox(group_idx, array) ==
    LET issorted == \A i \in 1..(Len(group_idx) - 1) :
                        group_idx[i] <= group_idx[i + 1]
        perm == argsort(group_idx)
    IN IF Len(array) # Len(group_idx)
       THEN [status |-> "AssertionError", group_idx |-> <<>>,
             ordered_array |-> <<>>, perm |-> <<>>]
       ELSE IF issorted
       THEN [status |-> "ok", group_idx |-> group_idx,
             ordered_array |-> array, perm |-> arange(Len(group_idx))]
       ELSE [status |-> "ok", group_idx |-> take(group_idx, perm),
             ordered_array |-> take(array, perm), perm |-> perm]

\* the binary ufuncs the kernel reduces with
ufunc(name, a, b) ==
    CASE name = "add" -> add(a, b)
      [] name = "multiply" -> multiply(a, b)
      [] name = "maximum" -> maximum(a, b)
      [] name = "minimum" -> minimum(a, b)

RECURSIVE reduce_slice(_, _, _, _)
\* ufunc.reduce over the 1-based positions lo..hi of array, left to right
reduce_slice(name, array, lo, hi) ==
    IF lo >= hi THEN array[lo]
    ELSE ufunc(name, reduce_slice(name, array, lo, hi - 1), array[hi])

\* ufunc.reduceat(array, indices) for strictly increasing indices:
\* entry i reduces array[indices[i] : indices[i+1]], the last one to the end
reduceat(name, array, indices) ==
    [i \in 1..Len(indices) |->
        reduce_slice(name, array, indices[i] + 1,
                     IF i < Len(indices) THEN indices[i + 1] ELSE Len(array))]

\* np.full(n, fill_value) of a float dtype
full(n, fill_value) == [i \in 1..n |-> asfloat(fill_value)]

\* a Python index into an axis of length n: negative indices count from the end
InBounds(i, n) == -n <= i /\ i < n

norm_index(i, n) == IF i < 0 THEN i + n ELSE i

\* out[idx] = vals that assigns only at the first index of idx
setitem_first(out, idx, vals, i) ==
    IF idx = <<>> THEN out
    ELSE [out EXCEPT ![norm_index(idx[1], Len(out)) + 1] = vals[1]]

RECURSIVE setitem(_, _, _, _)
\* out[idx] = vals for an index array idx, assigned in order from position i on
\* (for a repeated index the last value assigned stays)
setitem(out, idx, vals, i) ==
    IF i > Len(idx) THEN out
    ELSE setitem([out EXCEPT ![norm_index(idx[i], Len(out)) + 1] = vals[i]],
                 idx, vals, i + 1)

----------------------------------------------------------------------------
(* quantile_or_topk *)

_lerp(a, b, t) ==
    LET diff_b_a == subtract(b, a)
    IN IF ~less(t, Rat(1, 2))
       THEN subtract(b, multiply(diff_b_a, subtract(Fin(1), t)))
       ELSE add(a, multiply(diff_b_a, t))

\* Python truth value of a scalar argument: None and 0 are false
truthy(x) == x # None /\ x # Fin(0)

\* label + 1j * x, by the complex product (0 + 1j) * (x + 0j)
complex_of(label, x) ==
    [re |-> add(Fin(label),
                subtract(multiply(Fin(0), x), multiply(Fin(1), Fin(0)))),
     im |-> add(multiply(Fin(0), Fin(0)), multiply(Fin(1), x))]

\* numpy's order on complex numbers: by real part, then by imaginary part,
\* a NaN part after every number
part_lt(x, y) == IF y.kind = "nan" THEN x.kind # "nan" ELSE less(x, y)

clt(a, b) ==
    \/ part_lt(a.re, b.re)
    \/ /\ ~part_lt(b.re, a.re)
       /\ part_lt(a.im, b.im)

\* the elements of c in numpy's sorted order
csort(c) ==
    LET rank(i) == Cardinality({j \in 1..Len(c) :
                        clt(c[j], c[i]) \/ (~clt(c[i], c[j]) /\ j < i)})
    IN [r \in 1..Len(c) |-> c[CHOOSE i \in 1..Len(c) : rank(i) = r - 1]]

\* every order of the elements of the sequence seg
shuffles(seg) ==
    {[i \in 1..Len(seg) |-> seg[p[i]]] : p \in Permutations(1..Len(seg))}

RECURSIVE arrangements(_, _, _)
\* the arrangements of sorted[i..] in which each position of kth (0-based)
\* keeps its element and the positions between two of them hold the elements
\* of those ranks in any order
arrangements(sorted, kth, i) ==
    IF i > Len(sorted) THEN {<<>>}
    ELSE IF (i - 1) \in kth
    THEN {<<sorted[i]>> \o rest : rest \in arrangements(sorted, kth, i + 1)}
    ELSE LET later == {j \in (i + 1)..Len(sorted) : (j - 1) \in kth}
             stop == IF later = {} THEN Len(sorted) + 1
                     ELSE CHOOSE j \in later : \A l \in later : j <= l
         IN {seg \o rest : seg \in shuffles(SubSeq(sorted, i, stop - 1)),
                           rest \in arrangements(sorted, kth, stop)}

\* ndarray.partition(kth): each position of kth holds the element of that
\* rank, nothing greater before it and nothing smaller after it; the order of
\* the rest is unspecified. Without a kth nothing moves.
partition(c, kth) ==
    IF kth = {} THEN {c} ELSE arrangements(csort(c), kth, 1)

\* the array the partition works on: the missing values replaced by -inf and
\* then by the maximum of their run, np.where(...) followed by
\* array[array_nanmask] = replacement[array_nanmask]
nans_as_group_max(array0, inv_idx0) ==
    LET N == Len(array0)
        G == Len(inv_idx0)
        inv_idx == inv_idx0 \o <<N>>
        run(g) == (inv_idx[g] + 1)..inv_idx[g + 1]
        array_nanmask == [i \in 1..N |-> isnull(array0[i])]
        array1 == [i \in 1..N |-> IF array_nanmask[i] THEN NINF ELSE array0[i]]
        maxes == reduceat("maximum", array1, inv_idx0)
        replacement == [i \in 1..N |-> maxes[CHOOSE g \in 1..G : i \in run(g)]]
    IN [i \in 1..N |-> IF array_nanmask[i] THEN replacement[i] ELSE array1[i]]

quantile_or_topk(array0, inv_idx0, q, k, skipna, group_idx, fill_value) ==
    LET N == Len(array0)
        G == Len(inv_idx0)
        inv_idx == inv_idx0 \o <<N>>
        run(g) == (inv_idx[g] + 1)..inv_idx[g + 1]
        array_nanmask == [i \in 1..N |-> isnull(array0[i])]
        actual_sizes == [g \in 1..G |->
                            Cardinality({i \in run(g) : ~array_nanmask[i]})]
        full_sizes == [g \in 1..G |-> inv_idx[g + 1] - inv_idx[g]]
        nanmask == [g \in 1..G |-> full_sizes[g] # actual_sizes[g]]
        array == nans_as_group_max(array0, inv_idx0)
        absk == IF k = None THEN 0 ELSE Abs(k.n)
        \* q branch
        qvirtual_index == [g \in 1..G |->
            add(multiply(q, Fin(actual_sizes[g] - 1)), Fin(inv_idx[g]))]
        qlo_ == [g \in 1..G |-> floor(qvirtual_index[g])]
        hi_ == [g \in 1..G |-> ceil(qvirtual_index[g])]
        \* k branch
        kvirtual_index == [g \in 1..G |->
            inv_idx[g] + (IF k.n > 0 THEN actual_sizes[g] - k.n ELSE absk - 1)]
        klo_ == [j \in 1..absk |-> [g \in 1..G |-> (j - 1) + kvirtual_index[g]]]
        kth == IF q # None
               THEN Range(qlo_) \cup Range(hi_)
               ELSE {i \in Range(kvirtual_index) : i >= 0}
        cmplx == [i \in 1..N |-> complex_of(group_idx[i], array[i])]
        at(a_, i) == a_[norm_index(i, N) + 1]
        qresult(a_) == [g \in 1..G |->
            LET gamma == subtract(qvirtual_index[g], Fin(qlo_[g]))
                res == _lerp(at(a_, qlo_[g]), at(a_, hi_[g]), gamma)
            IN IF ~skipna /\ nanmask[g] THEN asfloat(fill_value) ELSE res]
        kresult(a_) == [j \in 1..absk |-> [g \in 1..G |->
            IF ~skipna /\ nanmask[g] THEN asfloat(fill_value)
            ELSE IF klo_[j][g] < 0 THEN asfloat(fill_value)
            ELSE at(a_, klo_[j][g])]]
        taken == IF q # None
                 THEN Range(qlo_) \cup Range(hi_)
                 ELSE UNION {Range(klo_[j]) : j \in 1..absk}
    IN IF ~(truthy(q) \/ truthy(k)) THEN {Raise("AssertionError")}
       ELSE IF \E kk \in kth : ~InBounds(kk, N) THEN {Raise("ValueError")}
       ELSE IF \E i \in taken : ~InBounds(i, N) THEN {Raise("IndexError")}
       ELSE {Ok(IF q # None THEN <<qresult([i \in 1..N |-> c[i].im])>>
                ELSE kresult([i \in 1..N |-> c[i].im])) :
             c \in partition(cmplx, {norm_index(kk, N) : kk \in kth})}

----------------------------------------------------------------------------
(* _np_grouped_op and the reductions bound to it *)

\* op(array, inv_idx, **kwargs): the rows of the per-run results, one per
\* outcome op can have. kwargs holds q and k, and group_idx and fill_value
\* when _np_grouped_op added them.
call_op(op, array, inv_idx, kwargs) ==
    IF op.fn = "reduceat" THEN {Ok(<<reduceat(op.ufunc, array, inv_idx)>>)}
    ELSE IF ~kwargs.has_group_idx THEN {Raise("TypeError")}
    ELSE quantile_or_topk(array, inv_idx, kwargs.q, kwargs.k, op.skipna,
                          kwargs.group_idx, kwargs.fill_value)

\* the run heads of the sorted codes
uniques_of(group_idx) ==
    compress(group_idx,
             <<TRUE>> \o [i \in 1..(Len(group_idx) - 1) |->
                             group_idx[i + 1] # group_idx[i]])

\* (len(uniques) == size) and (uniques == np.arange(size)).all()
fast_path(group_idx, size) ==
    /\ group_idx # <<>>
    /\ Len(uniques_of(group_idx)) = size
    /\ uniques_of(group_idx) = arange(size)

\* _np_grouped_op with the branch it takes given: fast writes the per-run
\* results straight into out, otherwise they are scattered at uniques
_np_grouped_op_via(fast, group_idx, array, op, size, fill_value, q, k) ==
    LET aux == group_idx
        flag == <<TRUE>> \o (IF Len(aux) <= 1 THEN <<>>
                             ELSE [i \in 1..(Len(aux) - 1) |-> aux[i + 1] # aux[i]])
        uniques == compress(aux, flag)
        inv_idx == nonzero(flag)
        plain == q = None /\ k = None
        nq == IF q # None THEN 1 ELSE Abs(k.n)
        kwargs == IF plain
                  THEN [q |-> q, k |-> k, has_group_idx |-> FALSE,
                        group_idx |-> <<>>, fill_value |-> None]
                  ELSE [q |-> q, k |-> k, has_group_idx |-> TRUE,
                        group_idx |-> group_idx, fill_value |-> fill_value]
        out == [r \in 1..(IF plain THEN 1 ELSE nq) |-> full(size, fill_value)]
        shaped(rows) == IF plain THEN rows[1] ELSE rows
        written(res) ==
            IF res.status # "ok" THEN res
            ELSE IF fast THEN Ok(shaped(res.out))
            ELSE IF \E u \in Range(uniques) : ~InBounds(u, size)
                 THEN Raise("IndexError")
            ELSE Ok(shaped([r \in 1..Len(out) |->
                        setitem(out[r], uniques, res.out[r], 1)]))
    IN IF Len(flag) # Len(aux) THEN {Raise("IndexError")}
       ELSE {written(res) : res \in call_op(op, array, inv_idx, kwargs)}

_np_grouped_op(group_idx, array, op, size, fill_value, q, k) ==
    _np_grouped_op_via(fast_path(group_idx, size), group_idx, array, op, size,
                       fill_value, q, k)

where_isnull(array, fillna) ==
    [i \in 1..Len(array) |-> IF isnull(array[i]) THEN fillna ELSE array[i]]

\* a result whose entries equal to fillna are left as they are
replace_equal_skipped(out, fillna, fill_value) == out

\* result[result == fillna] = fill_value, on a 1-d result
replace_equal(out, fillna, fill_value) ==
    [i \in 1..Len(out) |->
        IF equal(out[i], fillna) THEN asfloat(fill_value) ELSE out[i]]

_nan_grouped_op(group_idx, array, op, fillna, size, fill_value) ==
    {IF res.status = "ok" /\ fillna \in {INF, NINF}
     THEN Ok(replace_equal(res.out, fillna, fill_value))
     ELSE res :
     res \in _np_grouped_op(group_idx, where_isnull(array, fillna), op, size,
                            fill_value, None, None)}

add_reduceat == [fn |-> "reduceat", ufunc |-> "add", skipna |-> FALSE]
multiply_reduceat == [fn |-> "reduceat", ufunc |-> "multiply", skipna |-> FALSE]
maximum_reduceat == [fn |-> "reduceat", ufunc |-> "maximum", skipna |-> FALSE]
minimum_reduceat == [fn |-> "reduceat", ufunc |-> "minimum", skipna |-> FALSE]
quantile_or_topk_op(skipna) ==
    [fn |-> "quantile_or_topk", ufunc |-> "", skipna |-> skipna]

sum(group_idx, array, size, fill_value) ==
    _np_grouped_op(group_idx, array, add_reduceat, size, fill_value, None, None)

nansum(group_idx, array, size, fill_value) ==
    _nan_grouped_op(group_idx, array, add_reduceat, Fin(0), size, fill_value)

prod(group_idx, array, size, fill_value) ==
    _np_grouped_op(group_idx, array, multiply_reduceat, size, fill_value, None, None)

nanprod(group_idx, array, size, fill_value) ==
    _nan_grouped_op(group_idx, array, multiply_reduceat, Fin(1), size, fill_value)

max(group_idx, array, size, fill_value) ==
    _np_grouped_op(group_idx, array, maximum_reduceat, size, fill_value, None, None)

nanmax(group_idx, array, size, fill_value) ==
    _nan_grouped_op(group_idx, array, maximum_reduceat, NINF, size, fill_value)

min(group_idx, array, size, fill_value) ==
    _np_grouped_op(group_idx, array, minimum_reduceat, size, fill_value, None, None)

nanmin(group_idx, array, size, fill_value) ==
    _nan_grouped_op(group_idx, array, minimum_reduceat, INF, size, fill_value)

quantile(group_idx, array, size, fill_value, q) ==
    _np_grouped_op(group_idx, array, quantile_or_topk_op(FALSE), size,
                   fill_value, q, None)

topk(group_idx, array, size, fill_value, k) ==
    _np_grouped_op(group_idx, array, quantile_or_topk_op(TRUE), size,
                   fill_value, None, k)

nanquantile(group_idx, array, size, fill_value, q) ==
    _np_grouped_op(group_idx, array, quantile_or_topk_op(TRUE), size,
                   fill_value, q, None)

median(group_idx, array, size, fill_value) ==
    _np_grouped_op(group_idx, array, quantile_or_topk_op(FALSE), size,
                   fill_value, Rat(1, 2), None)

nanmedian(group_idx, array, size, fill_value) ==
    _np_grouped_op(group_idx, array, quantile_or_topk_op(TRUE), size,
                   fill_value, Rat(1, 2), None)

nanlen(group_idx, array, size, fill_value) ==
    sum(group_idx,
        [i \in 1..Len(array) |-> IF notnull(array[i]) THEN Fin(1) ELSE Fin(0)],
        size, fill_value)

\* out /= counts, elementwise
divide_by(res, counts) ==
    IF res.status # "ok" THEN res
    ELSE IF counts.status # "ok" THEN counts
    ELSE Ok([i \in 1..Len(res.out) |-> true_divide(res.out[i], counts.out[i])])

mean(group_idx, array, size, fill_value0) ==
    LET fill_value == IF fill_value0 = None THEN Fin(0) ELSE fill_value0
    IN {divide_by(out, n) :
        out \in sum(group_idx, array, size, fill_value),
        n \in nanlen(group_idx, array, size, Fin(0))}

nanmean(group_idx, array, size, fill_value0) ==
    LET fill_value == IF fill_value0 = None THEN Fin(0) ELSE fill_value0
    IN {divide_by(out, n) :
        out \in nansum(group_idx, array, size, fill_value),
        n \in nanlen(group_idx, array, size, Fin(0))}

----------------------------------------------------------------------------
(* the kernel entry point and its caller *)

RECURSIVE accumulate_maximum(_)
\* np.maximum.accumulate on a sequence of integers
accumulate_maximum(s) ==
    IF Len(s) <= 1 THEN s
    ELSE LET head == accumulate_maximum(SubSeq(s, 1, Len(s) - 1))
             last == head[Len(head)]
         IN head \o <<IF s[Len(s)] > last THEN s[Len(s)] ELSE last>>

\* ffill sorts the block itself, fills forward inside each run and puts the
\* elements back in the caller's order
ffill(group_idx0, array0) ==
    LET p == _prepare_for_flox(group_idx0, array0)
        group_idx == p.group_idx
        array == p.ordered_array
        N == Len(array)
        flag == <<TRUE>> \o (IF Len(group_idx) <= 1 THEN <<>>
                             ELSE [i \in 1..(Len(group_idx) - 1) |->
                                      group_idx[i + 1] # group_idx[i]])
        group_starts == nonzero(flag)
        mask == [i \in 1..N |->
                    isnull(array[i]) /\ (i - 1) \notin Range(group_starts)]
        idx == accumulate_maximum([i \in 1..N |-> IF mask[i] THEN 0 ELSE i - 1])
        invert_perm == argsort(p.perm)
    IN IF p.status # "ok" THEN Raise(p.status)
       ELSE IF \E g \in Range(group_starts) : ~InBounds(g, N)
       THEN Raise("IndexError")
       ELSE Ok(take(take(array, idx), invert_perm))

\* the named reduction on sorted codes
kernel(f, group_idx, array, size, fill_value, q, k) ==
    CASE f = "sum" -> sum(group_idx, array, size, fill_value)
      [] f = "nansum" -> nansum(group_idx, array, size, fill_value)
      [] f = "prod" -> prod(group_idx, array, size, fill_value)
      [] f = "nanprod" -> nanprod(group_idx, array, size, fill_value)
      [] f = "max" -> max(group_idx, array, size, fill_value)
      [] f = "nanmax" -> nanmax(group_idx, array, size, fill_value)
      [] f = "min" -> min(group_idx, array, size, fill_value)
      [] f = "nanmin" -> nanmin(group_idx, array, size, fill_value)
      [] f = "nanlen" -> nanlen(group_idx, array, size, fill_value)
      [] f = "mean" -> mean(group_idx, array, size, fill_value)
      [] f = "nanmean" -> nanmean(group_idx, array, size, fill_value)
      [] f = "quantile" -> quantile(group_idx, array, size, fill_value, q)
      [] f = "nanquantile" -> nanquantile(group_idx, array, size, fill_value, q)
      [] f = "median" -> median(group_idx, array, size, fill_value)
      [] f = "nanmedian" -> nanmedian(group_idx, array, size, fill_value)
      [] f = "topk" -> topk(group_idx, array, size, fill_value, k)

\* reduce(op, group_codes, data, size, fill_value): sort once, then reduce
reduce(f, codes, values, size, fill_value, q, k) ==
    LET p == _prepare_for_flox(codes, values)
    IN IF p.status # "ok" THEN {Raise(p.status)}
       ELSE kernel(f, p.group_idx, p.ordered_array, size, fill_value, q, k)

----------------------------------------------------------------------------
(* the arrays a call writes into *)

\* the buffer behind ordered_array: the caller's own array when the codes are
\* already sorted (ordered_array = array), a copy made by array[..., perm]
\* otherwise
ordered_array_buffer(group_idx) ==
    IF \A i \in 1..(Len(group_idx) - 1) : group_idx[i] <= group_idx[i + 1]
    THEN "data" ELSE "new"

\* a replacement of the missing values done in the argument's own buffer
np_where_in_place(buffer) == buffer

\* np.where allocates its result, whatever buffer its argument lives in
np_where(buffer) == "new"

\* the reductions that replace missing values before they reduce
Replacing == {"nansum", "nanprod", "nanmax", "nanmin", "nanmean"}
Partitioning == {"quantile", "nanquantile", "median", "nanmedian", "topk"}

\* what _nan_grouped_op puts in place of a missing value
fillna_of(f) ==
    CASE f \in {"nansum", "nanmean"} -> Fin(0)
      [] f = "nanprod" -> Fin(1)
      [] f = "nanmax" -> NINF
      [] f = "nanmin" -> INF

\* the buffer that reduction f writes into besides out: the array that holds
\* the replaced missing values; every other in-place write of the kernel
\* (out, result, the mask and idx of ffill, cmplx) is to an array that the
\* call made itself
written_buffer(f, group_idx) ==
    IF f \in Replacing \cup Partitioning
    THEN np_where(ordered_array_buffer(group_idx))
    ELSE "new"

\* what the written buffer holds when reduction f is over; quantile_or_topk
\* is entered, and writes, only with a non-empty block and a truthy q or k
\* (the medians bind q = 0.5)
written_array(f, group_idx, array, q, k) ==
    LET flag == <<TRUE>> \o (IF Len(group_idx) <= 1 THEN <<>>
                             ELSE [i \in 1..(Len(group_idx) - 1) |->
                                      group_idx[i + 1] # group_idx[i]])
        bound == f \in {"median", "nanmedian"} \/ truthy(q) \/ truthy(k)
    IN CASE f \in Replacing -> where_isnull(array, fillna_of(f))
         [] f \in Partitioning /\ group_idx # <<>> /\ bound ->
                nans_as_group_max(array, nonzero(flag))
         [] OTHER -> array

\* the caller's data array after the call of reduction f
data_after(f, group_idx, array, q, k) ==
    LET p == _prepare_for_flox(group_idx, array)
    IN IF p.status = "ok" /\ written_buffer(f, p.group_idx) = "data"
       THEN written_array(f, p.group_idx, p.ordered_array, q, k)
       ELSE array

\* the caller's codes after a call: group_idx is only read, and rebound to
\* group_idx[..., perm] when it is not sorted
group_codes_after(group_idx) == group_idx

----------------------------------------------------------------------------
(* the caller: inputs, then one call *)

MaxLen == 3
MaxSize == 2
MaxK == 2

\* data values: missing, the infinities, and two finite values
Values == {NaN, NINF, INF, Fin(0), Fin(2)}

\* the data of the inputs whose codes leave [0, size): position i holds i
Counting(n) == [i \in 1..n |-> Fin(i)]

Fills == {None, NaN, Fin(0), Fin(9)}

Qs == {Fin(0), Rat(1, 4), Rat(1, 2), Fin(1)}

Ks == {Fin(j) : j \in 1..MaxK} \cup {Fin(-j) : j \in 1..MaxK}

ValidCodes(codes, size) == \A i \in 1..Len(codes) : 0 <= codes[i] /\ codes[i] < size

Ones(n) == [i \in 1..n |-> Fin(1)]

\* the concrete scenarios of the specification
Scenarios ==
    {[codes |-> <<0, 1, 2, 0, 1, 2>>, values |-> Ones(6), size |-> 3],
     [codes |-> <<1, 2, 3, 1, 2, 3, 0, 0, 0>>, values |-> Ones(9), size |-> 4],
     [codes |-> <<0, 0, 0>>, values |-> <<NaN, Fin(5), Fin(3)>>, size |-> 1]}

\* no call of xarray_reduce is under way
NotInXarray ==
    /\ xr_args = <<>>
    /\ xr_pc = "none"
    /\ xr_i = 0
    /\ xr_error = ""
    /\ xr_calls = <<>>

\* no cohort discovery is under way
NotInCohorts ==
    /\ co_bitmask = <<>>
    /\ co_cohorts = {}
    /\ co_pc = "none"

\* no rechunk is under way
NotInRechunk ==
    /\ rc_labels = <<>>
    /\ rc_chunks = <<>>
    /\ rc_result = <<>>
    /\ rc_pc = "none"

Init ==
    /\ NotInXarray
    /\ NotInCohorts
    /\ NotInRechunk
    /\ \/ \E size \in 1..MaxSize, n \in 0..MaxLen :
            /\ ngroups = size
            /\ \/ /\ group_codes \in [1..n -> 0..(size - 1)]
                  /\ data \in [1..n -> Values]
               \/ /\ group_codes \in [1..n -> (-2)..size]
                  /\ ~ValidCodes(group_codes, size)
                  /\ data = Counting(n)
       \/ \E s \in Scenarios :
            /\ ngroups = s.size
            /\ group_codes = s.codes
            /\ data = s.values
    /\ fill \in Fills
    /\ func = "none"
    /\ qarg = None
    /\ karg = None
    /\ result = NoResult

\* the caller sorts the block once for every reduction of the kernel
prepared == _prepare_for_flox(group_codes, data)

\* what a call ends with: the assertion of _prepare_for_flox, or an outcome
\* of the reduction on the sorted block
entered(outcomes) ==
    IF prepared.status # "ok" THEN {Raise(prepared.status)} ELSE outcomes

\* no call was made yet
Idle == func = "none"

\* the call of reduction f with arguments q and k ends with r, returned or
\* raised, and the caller's arrays hold what the call wrote into them
Return(f, q, k, r) ==
    /\ func' = f
    /\ qarg' = q
    /\ karg' = k
    /\ result' = r
    /\ data' = data_after(f, group_codes, data, q, k)
    /\ group_codes' = group_codes_after(group_codes)
    /\ UNCHANGED <<ngroups, fill, xr_vars, co_vars, rc_vars>>

Sum ==
    /\ Idle
    /\ \E r \in entered(sum(prepared.group_idx, prepared.ordered_array,
                              ngroups, fill)) :
           Return("sum", None, None, r)

NanSum ==
    /\ Idle
    /\ \E r \in entered(nansum(prepared.group_idx, prepared.ordered_array,
                              ngroups, fill)) :
           Return("nansum", None, None, r)

Prod ==
    /\ Idle
    /\ \E r \in entered(prod(prepared.group_idx, prepared.ordered_array,
                              ngroups, fill)) :
           Return("prod", None, None, r)

NanProd ==
    /\ Idle
    /\ \E r \in entered(nanprod(prepared.group_idx, prepared.ordered_array,
                              ngroups, fill)) :
           Return("nanprod", None, None, r)

Max ==
    /\ Idle
    /\ \E r \in entered(max(prepared.group_idx, prepared.ordered_array,
                              ngroups, fill)) :
           Return("max", None, None, r)

NanMax ==
    /\ Idle
    /\ \E r \in entered(nanmax(prepared.group_idx, prepared.ordered_array,
                              ngroups, fill)) :
           Return("nanmax", None, None, r)

Min ==
    /\ Idle
    /\ \E r \in entered(min(prepared.group_idx, prepared.ordered_array,
                              ngroups, fill)) :
           Return("min", None, None, r)

NanMin ==
    /\ Idle
    /\ \E r \in entered(nanmin(prepared.group_idx, prepared.ordered_array,
                              ngroups, fill)) :
           Return("nanmin", None, None, r)

\* the count is an integer array, so its fill_value is an integer
NanLen ==
    /\ Idle
    /\ fill.kind = "fin"
    /\ \E r \in entered(nanlen(prepared.group_idx, prepared.ordered_array,
                              ngroups, fill)) :
           Return("nanlen", None, None, r)

Mean ==
    /\ Idle
    /\ \E r \in entered(mean(prepared.group_idx, prepared.ordered_array,
                              ngroups, fill)) :
           Return("mean", None, None, r)

NanMean ==
    /\ Idle
    /\ \E r \in entered(nanmean(prepared.group_idx, prepared.ordered_array,
                              ngroups, fill)) :
           Return("nanmean", None, None, r)

Quantile ==
    /\ Idle
    /\ \E q \in Qs :
        \E r \in entered(quantile(prepared.group_idx, prepared.ordered_array,
                              ngroups, fill, q)) :
            Return("quantile", q, None, r)

NanQuantile ==
    /\ Idle
    /\ \E q \in Qs :
        \E r \in entered(nanquantile(prepared.group_idx, prepared.ordered_array,
                              ngroups, fill, q)) :
            Return("nanquantile", q, None, r)

Median ==
    /\ Idle
    /\ \E r \in entered(median(prepared.group_idx, prepared.ordered_array,
                              ngroups, fill)) :
           Return("median", None, None, r)

NanMedian ==
    /\ Idle
    /\ \E r \in entered(nanmedian(prepared.group_idx, prepared.ordered_array,
                              ngroups, fill)) :
           Return("nanmedian", None, None, r)

Topk ==
    /\ Idle
    /\ \E k \in Ks :
        \E r \in entered(topk(prepared.group_idx, prepared.ordered_array,
                              ngroups, fill, k)) :
            Return("topk", None, k, r)

\* quantile called with neither q nor k
QuantileUnset ==
    /\ Idle
    /\ \E r \in entered(quantile(prepared.group_idx, prepared.ordered_array,
                                 ngroups, fill, None)) :
           Return("quantile_unset", None, None, r)

\* ffill(group_idx, array): the kernel's forward fill, which takes no size
Ffill ==
    /\ Idle
    /\ Return("ffill", None, None, ffill(group_codes, data))

Next ==
    \/ Sum \/ NanSum \/ Prod \/ NanProd
    \/ Max \/ NanMax \/ Min \/ NanMin
    \/ NanLen \/ Mean \/ NanMean
    \/ Quantile \/ NanQuantile \/ Median \/ NanMedian
    \/ Topk
    \/ QuantileUnset
    \/ Ffill

Spec == Init /\ [][Next]_vars

----------------------------------------------------------------------------
(* xarray_reduce (flox/xarray.py): argument checks, the loop over the      *)
(* groupers, and the wrapper apply_ufunc calls once per data variable      *)

MaxBy == 2
MaxVars == 2

\* a reduction named by a string: "nan" + base when nan, else base
Named(nan, base) == [str |-> TRUE, nan |-> nan, base |-> base]

\* a reduction given as an Aggregation object
AnAggregation == [str |-> FALSE, nan |-> FALSE, base |-> "Aggregation"]

Funcs ==
    {Named(FALSE, "sum"), Named(TRUE, "mean"), Named(FALSE, "count"),
     Named(FALSE, "all"), AnAggregation}

\* skipna: None, True or False
Skipnas == {"None", "True", "False"}

\* array.dtype.kind: float, integer, complex, object, datetime64, timedelta64
DTypeKinds == {"f", "i", "c", "O", "M", "m"}

\* an entry of expected_groups: absent, an integer bin count, or an array of
\* labels or bin edges
Expects == {"None", "int", "array"}

NotInKernel ==
    /\ group_codes = <<>>
    /\ data = <<>>
    /\ ngroups = 1
    /\ fill = None
    /\ func = "none"
    /\ qarg = None
    /\ karg = None
    /\ result = NoResult

XarrayInit ==
    /\ NotInKernel
    /\ NotInCohorts
    /\ NotInRechunk
    /\ \E nby \in 1..MaxBy, nvars \in 1..MaxVars :
        xr_args \in [func : Funcs, skipna : Skipnas, sort : BOOLEAN,
                     isbins : [1..nby -> BOOLEAN],
                     expected_groups : [1..nby -> Expects],
                     dtypes : [1..nvars -> DTypeKinds],
                     \* whether a reduced dimension is a dimension of a grouper
                     dim_in_groupers : BOOLEAN]
    /\ xr_pc = "arguments"
    /\ xr_i = 0
    /\ xr_error = ""
    /\ xr_calls = <<>>

xr_raise(exc) ==
    /\ xr_pc' = "raised"
    /\ xr_error' = exc
    /\ UNCHANGED <<xr_args, xr_i, xr_calls>>

xr_goto(pc, i) ==
    /\ xr_pc' = pc
    /\ xr_i' = i
    /\ UNCHANGED <<xr_args, xr_error, xr_calls>>

kernel_vars == <<group_codes, data, ngroups, fill, func, qarg, karg, result>>

\* everything a call of xarray_reduce leaves alone
outside_xarray == <<kernel_vars, co_vars, rc_vars>>

\* skipna with an Aggregation, and sort=False, are refused
check_arguments ==
    /\ xr_pc = "arguments"
    /\ IF xr_args.skipna # "None" /\ ~xr_args.func.str
       THEN xr_raise("ValueError")
       ELSE IF ~xr_args.sort THEN xr_raise("NotImplementedError")
       ELSE xr_goto("dims", 0)
    /\ UNCHANGED outside_xarray

\* reducing only along dimensions the groups do not vary along, without
\* binning, is a plain reduction of the dataset
plain_reduction ==
    /\ xr_pc = "dims"
    /\ IF ~xr_args.dim_in_groupers
          /\ \A b \in 1..Len(xr_args.isbins) : ~xr_args.isbins[b]
       THEN IF xr_args.func.str THEN xr_goto("returned", 0)
            ELSE xr_raise("NotImplementedError")
       ELSE xr_goto("groupers", 1)
    /\ UNCHANGED outside_xarray

\* a round of the loop that accepts every entry of expected_groups
check_grouper_unchecked ==
    /\ xr_pc = "groupers"
    /\ IF xr_i < Len(xr_args.isbins) THEN xr_goto("groupers", xr_i + 1)
       ELSE xr_goto("apply", 1)
    /\ UNCHANGED outside_xarray

\* one round of the loop over (by, expected_groups, isbins)
check_grouper ==
    /\ xr_pc = "groupers"
    /\ LET isbin_ == xr_args.isbins[xr_i]
           expect == xr_args.expected_groups[xr_i]
       IN IF isbin_ /\ expect = "int" THEN xr_raise("NotImplementedError")
          ELSE IF expect = "None" /\ isbin_ THEN xr_raise("ValueError")
          ELSE IF xr_i < Len(xr_args.isbins) THEN xr_goto("groupers", xr_i + 1)
          ELSE xr_goto("apply", 1)
    /\ UNCHANGED outside_xarray

\* the func name wrapper hands to groupby_reduce for an array of dtype kind
wrapper_func(f, skipna, kind) ==
    IF skipna = "True" \/ (skipna = "None" /\ f.str /\ kind \in {"c", "f", "O"})
    THEN IF ~f.nan /\ f.base \notin {"all", "any", "count"}
         THEN Named(TRUE, f.base)
         ELSE f
    ELSE f

\* apply_ufunc calls wrapper on the next data variable
wrapper ==
    /\ xr_pc = "apply"
    /\ LET kind == xr_args.dtypes[xr_i]
       IN IF xr_args.skipna = "True"
             /\ xr_args.func.base \in {"all", "any", "count"}
          THEN xr_raise("ValueError")
          ELSE /\ xr_calls' = Append(xr_calls,
                      [var |-> xr_i, kind |-> kind,
                       func |-> wrapper_func(xr_args.func, xr_args.skipna, kind)])
               /\ IF xr_i < Len(xr_args.dtypes)
                  THEN xr_pc' = "apply" /\ xr_i' = xr_i + 1
                  ELSE xr_pc' = "returned" /\ xr_i' = 0
               /\ UNCHANGED <<xr_args, xr_error>>
    /\ UNCHANGED outside_xarray

XarrayNext ==
    \/ check_arguments
    \/ plain_reduction
    \/ check_grouper
    \/ wrapper

XarraySpec == XarrayInit /\ [][XarrayNext]_vars

----------------------------------------------------------------------------
(* cohort discovery (find_cohorts of the specification, section 4.3;       *)
(* flox.core.find_group_cohorts, called by asv_bench/benchmarks/cohorts.py) *)

MaxChunks == 3
MaxLabels == 3

Chunks == 1..Len(co_bitmask)

Cohort(chunks, labels) == [chunks |-> chunks, labels |-> labels]

CohortInit ==
    /\ NotInKernel
    /\ NotInXarray
    /\ NotInRechunk
    /\ \E n \in 1..MaxChunks :
        co_bitmask \in [1..n -> SUBSET (0..(MaxLabels - 1))]
    /\ co_cohorts = {}
    /\ co_pc = "start"

outside_cohorts == <<kernel_vars, xr_vars, rc_vars>>

\* chunks with identical label sets belong to the same cohort
group_identical ==
    /\ co_pc = "start"
    /\ co_cohorts' =
         {Cohort({c \in Chunks : co_bitmask[c] = L}, L) : L \in Range(co_bitmask)}
    /\ co_pc' = "merging"
    /\ UNCHANGED <<co_bitmask, outside_cohorts>>

\* a merge that forgets the chunks of the second cohort
merged_without_chunks(a, b) == Cohort(a.chunks, a.labels \cup b.labels)

\* two cohorts made one: the union of their chunks and of their labels
merged(a, b) == Cohort(a.chunks \cup b.chunks, a.labels \cup b.labels)

\* two cohorts with unequal, overlapping label sets are merged when the cost
\* heuristic says so; the heuristic's verdict is left open
merge_overlapping ==
    /\ co_pc = "merging"
    /\ \E a, b \in co_cohorts :
        /\ a # b
        /\ a.labels \cap b.labels # {}
        /\ co_cohorts' = (co_cohorts \ {a, b}) \cup {merged(a, b)}
    /\ UNCHANGED <<co_bitmask, co_pc, outside_cohorts>>

return_cohorts ==
    /\ co_pc = "merging"
    /\ co_pc' = "returned"
    /\ UNCHANGED <<co_bitmask, co_cohorts, outside_cohorts>>

CohortNext ==
    \/ group_identical
    \/ merge_overlapping
    \/ return_cohorts

CohortSpec == CohortInit /\ [][CohortNext]_vars

----------------------------------------------------------------------------
(* rechunk_for_blockwise (flox/xarray.py) over the rechunker of the        *)
(* specification, section 4.4 (flox.core.rechunk_for_blockwise)            *)

MaxDim == 6

RECURSIVE sum_of(_)
sum_of(s) == IF s = <<>> THEN 0 ELSE s[1] + sum_of(Tail(s))

\* an array that is not chunked (its .chunks is None): no chunk lengths
Unchunked == <<>>

RECURSIVE chunkings(_)
\* every way to cut n elements into chunks
chunkings(n) ==
    IF n = 0 THEN {<<>>}
    ELSE UNION {{<<first>> \o rest : rest \in chunkings(n - first)} :
                first \in 1..n}

non_decreasing(n) ==
    {l \in [1..n -> 0..2] : \A i \in 1..(n - 1) : l[i] <= l[i + 1]}

RechunkScenarios ==
    {[labels |-> <<0, 0, 0, 1, 1, 1, 2, 2>>, chunks |-> <<3, 3, 2>>],
     [labels |-> <<0, 0, 0, 1, 1, 1, 2, 2>>, chunks |-> <<4, 4>>]}

RechunkInit ==
    /\ NotInKernel
    /\ NotInXarray
    /\ NotInCohorts
    /\ \/ \E n \in 1..MaxDim :
            /\ rc_labels \in non_decreasing(n)
            /\ rc_chunks \in chunkings(n) \cup {Unchunked}
       \/ \E sc \in RechunkScenarios :
            /\ rc_labels = sc.labels
            /\ rc_chunks = sc.chunks
    /\ rc_result = <<>>
    /\ rc_pc = "called"

\* the positions after which a chunk of chunking ends
boundaries(chunking) ==
    {sum_of(SubSeq(chunking, 1, j)) : j \in 1..Len(chunking)}

\* no group has members on both sides of a chunk boundary
aligned(chunking, labels) ==
    \A b \in boundaries(chunking) :
        b < Len(labels) => labels[b] # labels[b + 1]

\* a chunk boundary at every position where the label changes
snap_to_label_changes(labels) ==
    LET changes == SelectSeq([i \in 1..(Len(labels) - 1) |-> i],
                             LAMBDA i : labels[i] # labels[i + 1])
        bounds == <<0>> \o changes \o <<Len(labels)>>
    IN [j \in 1..(Len(bounds) - 1) |-> bounds[j + 1] - bounds[j]]

\* the chunking handed back whatever the labels are
chunks_kept(chunks, labels) == chunks

\* the rechunker: an aligned chunking is returned unchanged, any other has
\* its boundaries snapped to the positions where the label changes
blockwise_chunks(chunks, labels) ==
    IF aligned(chunks, labels) THEN chunks ELSE snap_to_label_changes(labels)

\* _rechunk: a chunked array gets the chunking of the rechunker, an array
\* without chunks is returned as it is
rechunk_for_blockwise ==
    /\ rc_pc = "called"
    /\ rc_result' = IF rc_chunks = Unchunked THEN Unchunked
                    ELSE blockwise_chunks(rc_chunks, rc_labels)
    /\ rc_pc' = "returned"
    /\ UNCHANGED <<rc_labels, rc_chunks, kernel_vars, xr_vars, co_vars>>

RechunkNext == rechunk_for_blockwise

RechunkSpec == RechunkInit /\ [][RechunkNext]_vars

----------------------------------------------------------------------------
(* the properties *)

\* a reduction of the kernel was called
Called == func \notin {"none", "ffill"}

Returned == Called /\ result.status = "ok"

\* the groups of the output: codes 0 .. size-1
Groups == 0..(ngroups - 1)

Occurs(g) == \E i \in 1..Len(group_codes) : group_codes[i] = g

\* the caller's data of group g, in the caller's order
Members(g) ==
    LET at == SelectSeq(arange(Len(group_codes)),
                        LAMBDA i : group_codes[i + 1] = g)
    IN [j \in 1..Len(at) |-> data[at[j] + 1]]

RECURSIVE SumSeq(_)
SumSeq(s) == IF s = <<>> THEN Fin(0) ELSE add(SumSeq(SubSeq(s, 1, Len(s) - 1)), s[Len(s)])

\* the rows of an output: the array itself when it is 1-d
Rows == IF func \in {"quantile", "nanquantile", "median", "nanmedian", "topk"}
        THEN Range(result.out) ELSE {result.out}

(***************************************************************************)
(* C1: grouped sum. For codes all in [0, size), in any order, sum returns  *)
(* an array of length size whose position g holds the sum of exactly the   *)
(* data whose code is g.                                                   *)
(***************************************************************************)
C1_GroupedSum ==
    (func = "sum" /\ ValidCodes(group_codes, ngroups)) =>
        /\ result.status = "ok"
        /\ Len(result.out) = ngroups
        /\ \A g \in Groups : Occurs(g) => result.out[g + 1] = SumSeq(Members(g))

\* s with its positions rearranged by p
Permuted(s, p) == [i \in 1..Len(s) |-> s[p[i]]]

\* the exchanges of two positions of 1..n (they generate every permutation)
Transpositions(n) ==
    {[i \in 1..n |-> IF i = a THEN b ELSE IF i = b THEN a ELSE i] :
        a \in 1..n, b \in 1..n}

\* every permutation of a block of the bounded inputs; for a longer block
\* (a scenario) the exchanges of two positions
Rearrangements(n) ==
    IF n <= MaxLen THEN Permutations(1..n) ELSE Transpositions(n)

OrderInsensitive ==
    {"sum", "mean", "min", "max", "nanlen", "quantile", "nanquantile"}

Unsorted == \E i \in 1..(Len(group_codes) - 1) : group_codes[i] > group_codes[i + 1]

(***************************************************************************)
(* C2: sort invariance. For sum, mean, min, max, count and quantile,       *)
(* applying one permutation to the codes and to the data leaves what the   *)
(* call returns (or raises) unchanged, for every permutation and input.    *)
(***************************************************************************)
C2_SortInvariance ==
    (Called /\ func \in OrderInsensitive) =>
        \A p \in Rearrangements(Len(group_codes)) :
            reduce(func, Permuted(group_codes, p), Permuted(data, p),
                   ngroups, fill, qarg, karg) = {result}

\* a quantile was returned for three or more elements whose codes are not sorted
C2_Witness ==
    /\ func = "quantile" /\ Returned /\ ValidCodes(group_codes, ngroups)
    /\ Unsorted /\ Len(group_codes) >= 3
    /\ \E i, j \in 1..Len(data) : data[i] # data[j]

(***************************************************************************)
(* C3: a code outside [0, size) is an error. Whenever some code is         *)
(* negative or >= size, the call ends in an error and returns no array,    *)
(* whatever the reduction.                                                 *)
(***************************************************************************)
C3_InvalidCodeIsError ==
    (Called /\ ~ValidCodes(group_codes, ngroups)) => result.status # "ok"

(***************************************************************************)
(* C4: empty input is not an error. With no element and size > 0 the call  *)
(* returns an output of length size holding fill_value everywhere.         *)
(***************************************************************************)
C4_EmptyInputIsFill ==
    (Called /\ Len(group_codes) = 0 /\ ngroups > 0) =>
        /\ result.status = "ok"
        /\ \A row \in Rows : row = full(ngroups, fill)

\* an array came back from a call with codes in [0, size) and a fill_value
ReturnedWithFill ==
    Returned /\ ValidCodes(group_codes, ngroups) /\ fill # None

(***************************************************************************)
(* C5: absent groups stay at fill_value. For every reduction of the kernel *)
(* (sum, prod, min, max, their nan-variants, count, mean, nanmean,         *)
(* quantile, topk) and every fill_value the caller supplies, the output    *)
(* position of a group in [0, size) that does not occur in the codes       *)
(* equals fill_value.                                                      *)
(***************************************************************************)
C5_AbsentIsFill ==
    ReturnedWithFill =>
        \A g \in Groups : ~Occurs(g) => \A row \in Rows : row[g + 1] = fill

AllMissing(g) == Occurs(g) /\ \A i \in 1..Len(Members(g)) : isnull(Members(g)[i])

(***************************************************************************)
(* C6 as stated: for nansum, nanprod, nanmin and nanmax, a group that      *)
(* occurs and whose values are all missing gets fill_value at its output   *)
(* position.                                                               *)
(***************************************************************************)
C6_AllMissingIsFill_Original ==
    (ReturnedWithFill /\ func \in {"nansum", "nanprod", "nanmin", "nanmax"}) =>
        \A g \in Groups : AllMissing(g) => result.out[g + 1] = fill

(***************************************************************************)
(* C6 amended: a group that occurs and whose values are all missing gets   *)
(* fill_value from nanmin and nanmax, and the operator's identity from     *)
(* nansum (0) and nanprod (1).                                             *)
(***************************************************************************)
C6_AllMissingIsFill ==
    ReturnedWithFill =>
        \A g \in Groups : AllMissing(g) =>
            /\ func \in {"nanmin", "nanmax"} => result.out[g + 1] = fill
            /\ func = "nansum" => result.out[g + 1] = Fin(0)
            /\ func = "nanprod" => result.out[g + 1] = Fin(1)

\* nanmax came back for a group of two missing values beside a group with a
\* value, fill_value 9
C6_Witness ==
    /\ ReturnedWithFill /\ func = "nanmax" /\ fill = Fin(9)
    /\ \E g \in Groups : AllMissing(g) /\ Len(Members(g)) >= 2
    /\ \E g \in Groups : Occurs(g) /\ ~AllMissing(g)

\* the values of s that are not missing
NonMissing(s) == SelectSeq(s, notnull)

\* the smallest and the largest of a non-empty set of values without NaN
Smallest(S) == CHOOSE x \in S : \A y \in S : ~less(y, x)

Largest(S) == CHOOSE x \in S : \A y \in S : ~less(x, y)

(***************************************************************************)
(* C7: a real result equal to the identity is told from an all-missing     *)
(* group. For nanmin and nanmax a group with a non-missing value gets the  *)
(* min/max of its non-missing values, also when that is +inf (nanmin) or   *)
(* -inf (nanmax); it is never replaced by fill_value.                      *)
(***************************************************************************)
C7_IdentityIsReal ==
    (ReturnedWithFill /\ func \in {"nanmin", "nanmax"}) =>
        \A g \in Groups : (Occurs(g) /\ ~AllMissing(g)) =>
            result.out[g + 1] =
                IF func = "nanmin" THEN Smallest(Range(NonMissing(Members(g))))
                ELSE Largest(Range(NonMissing(Members(g))))

\* the q a call works with: median and nanmedian bind q = 0.5
EffQ == IF func \in {"median", "nanmedian"} THEN Rat(1, 2) ELSE qarg

\* the values of s in ascending order (s holds no NaN)
Sorted(s) ==
    CHOOSE t \in {Permuted(s, p) : p \in Permutations(1..Len(s))} :
        \A i \in 1..Len(t) : \A j \in i..Len(t) : ~less(t[j], t[i])

\* x_lo + (x_hi - x_lo) * (v - lo) with v = q * (n - 1), on ascending x
Interpolated(x, q) ==
    LET v == multiply(q, Fin(Len(x) - 1))
        lo == floor(v)
        hi == ceil(v)
    IN add(x[lo + 1],
           multiply(subtract(x[hi + 1], x[lo + 1]), subtract(v, Fin(lo))))

\* the only row of the output of a quantile called with a scalar q
QRow == result.out[1]

(***************************************************************************)
(* C8: quantile with skipna=True is linear interpolation over the group's  *)
(* non-missing values. For every group with n >= 1 non-missing values      *)
(* x_0 <= ... <= x_(n-1) and every q in [0,1] the result is                *)
(* x_lo + (x_hi - x_lo) * (v - lo), v = q*(n-1), lo = floor(v),            *)
(* hi = ceil(v), however many missing values the group holds.              *)
(***************************************************************************)
C8_SkipnaQuantileInterpolates ==
    (Called /\ func \in {"nanquantile", "nanmedian"}
            /\ ValidCodes(group_codes, ngroups)) =>
        \A g \in Groups : NonMissing(Members(g)) # <<>> =>
            /\ result.status = "ok"
            /\ QRow[g + 1] = Interpolated(Sorted(NonMissing(Members(g))), EffQ)

\* the results of the skipna=True quantile on the input of the call
WithSkipna ==
    reduce(IF func = "median" THEN "nanmedian" ELSE "nanquantile",
           group_codes, data, ngroups, fill, qarg, karg)

(***************************************************************************)
(* C9: quantile with skipna=False poisons only the groups with missing     *)
(* data. A group with at least one missing value yields fill_value for     *)
(* every requested q, and a group with no missing value yields the same    *)
(* result as with skipna=True, whatever the other groups contain.          *)
(***************************************************************************)
C9_NoSkipnaPoisonsOwnGroup ==
    (Called /\ func \in {"quantile", "median"}
            /\ ValidCodes(group_codes, ngroups)) =>
        \A g \in Groups : Occurs(g) =>
            /\ result.status = "ok"
            /\ NonMissing(Members(g)) # Members(g) =>
                   QRow[g + 1] = asfloat(fill)
            /\ NonMissing(Members(g)) = Members(g) =>
                   \A r \in WithSkipna :
                       r.status = "ok" /\ r.out[1][g + 1] = QRow[g + 1]

(***************************************************************************)
(* C10: an all-missing group under the skipna=True quantile. For           *)
(* nanquantile and nanmedian a group that occurs in the codes and whose    *)
(* values are all missing is not an error and yields fill_value at its     *)
(* output position for every q in [0,1], first group or later one.         *)
(***************************************************************************)
C10_SkipnaAllMissingIsFill ==
    (Called /\ func \in {"nanquantile", "nanmedian"}
            /\ ValidCodes(group_codes, ngroups)) =>
        \A g \in Groups : AllMissing(g) =>
            /\ result.status = "ok"
            /\ QRow[g + 1] = asfloat(fill)

\* |k| of a topk call
AbsK == Abs(karg.n)

\* what topk returned for group g, row by row
KColumn(g) == [j \in 1..AbsK |-> result.out[j][g + 1]]

(***************************************************************************)
(* C11: top-k selects the right values. For every group with at least |k|  *)
(* non-missing members, topk with k > 0 returns the k largest values of    *)
(* the group in ascending order and topk with k < 0 returns the |k|        *)
(* smallest values of the group, for every |k| >= 1 and every arrangement  *)
(* the partition step may produce.                                         *)
(***************************************************************************)
C11_TopkSelects ==
    (Called /\ func = "topk" /\ ValidCodes(group_codes, ngroups)) =>
        \A g \in Groups :
            LET x == Sorted(NonMissing(Members(g)))
            IN Len(x) >= AbsK =>
                /\ result.status = "ok"
                /\ karg.n > 0 => KColumn(g) = SubSeq(x, Len(x) - AbsK + 1, Len(x))
                /\ karg.n < 0 => Sorted(KColumn(g)) = SubSeq(x, 1, AbsK)

(***************************************************************************)
(* C12: top-k on a group smaller than |k|. For every group, first or       *)
(* later in code order, with fewer than |k| non-missing members and for    *)
(* both signs of k, each output position of the group whose target rank    *)
(* falls outside the group's own run is set to fill_value; it never holds  *)
(* a value taken from another group. The target ranks are                  *)
(* run_start + (count - k) + j for k > 0 and run_start + j for k < 0,      *)
(* j = 0 .. |k| - 1.                                                       *)
(***************************************************************************)
C12_TopkSmallGroupIsFill ==
    (Called /\ func = "topk" /\ ValidCodes(group_codes, ngroups)) =>
        \A g \in Groups :
            LET count == Len(NonMissing(Members(g)))
            IN (Occurs(g) /\ count < AbsK) =>
                /\ result.status = "ok"
                /\ karg.n > 0 => \A j \in 1..(AbsK - count) :
                                    result.out[j][g + 1] = asfloat(fill)
                /\ karg.n < 0 => \A j \in (Len(Members(g)) + 1)..AbsK :
                                    result.out[j][g + 1] = asfloat(fill)

\* a <= b on float64, a value also counting as <= itself when it is NaN
\* (the fill_value of a poisoned group at both q)
leq(a, b) == a = b \/ less(a, b)

\* the q of Qs from the q of the call upwards
LargerQs == {q2 \in Qs : leq(qarg, q2)}

(***************************************************************************)
(* C13: quantile monotonicity. For a fixed input and a fixed group,        *)
(* q1 <= q2 (both in [0,1]) implies quantile(q1) <= quantile(q2) for that  *)
(* group.                                                                  *)
(***************************************************************************)
C13_QuantileMonotone ==
    (Returned /\ func \in {"quantile", "nanquantile"}
              /\ ValidCodes(group_codes, ngroups)) =>
        \A q2 \in LargerQs :
            \A r \in reduce(func, group_codes, data, ngroups, fill, q2, None) :
                r.status = "ok" =>
                    \A g \in Groups : Occurs(g) =>
                        leq(QRow[g + 1], r.out[1][g + 1])

\* the forward fill was called and returned
Filled == func = "ffill" /\ result.status = "ok"

\* the positions up to i that hold a non-missing value of the group of i
Sources(i) ==
    {j \in 1..i : group_codes[j] = group_codes[i] /\ notnull(data[j])}

\* the value the forward fill owes position i
Carried(i) ==
    IF Sources(i) = {} THEN data[i]
    ELSE data[CHOOSE j \in Sources(i) : \A l \in Sources(i) : l <= j]

(***************************************************************************)
(* C14: forward-fill is per group and position-preserving. For every codes *)
(* array, sorted or not, the output has the input's shape and element      *)
(* order; output[i] is the data value at the latest position j <= i with   *)
(* codes[j] = codes[i] and data[j] non-missing, or stays missing when      *)
(* there is none. No value crosses from one group into another and         *)
(* non-missing inputs come back unchanged.                                 *)
(***************************************************************************)
C14_FfillPerGroup ==
    func = "ffill" =>
        /\ result.status = "ok"
        /\ Len(result.out) = Len(data)
        /\ \A i \in 1..Len(data) : result.out[i] = Carried(i)

\* missing -> 0, anything else -> 1
counted(array) ==
    [i \in 1..Len(array) |-> IF notnull(array[i]) THEN Fin(1) ELSE Fin(0)]

\* fill_value as mean and nanmean hand it on
mean_fill == IF fill = None THEN Fin(0) ELSE fill

GroupedCall(array, op, fill_value, q, k) ==
    [array |-> array, op |-> op, fill_value |-> fill_value, q |-> q, k |-> k]

\* the calls of _np_grouped_op that reduction f makes on the sorted block
GroupedCalls(f) ==
    LET a == prepared.ordered_array
        plain(array, op) == GroupedCall(array, op, fill, None, None)
        count == GroupedCall(counted(a), add_reduceat, Fin(0), None, None)
    IN CASE f = "sum" -> {plain(a, add_reduceat)}
         [] f = "nansum" -> {plain(where_isnull(a, Fin(0)), add_reduceat)}
         [] f = "prod" -> {plain(a, multiply_reduceat)}
         [] f = "nanprod" -> {plain(where_isnull(a, Fin(1)), multiply_reduceat)}
         [] f = "max" -> {plain(a, maximum_reduceat)}
         [] f = "nanmax" -> {plain(where_isnull(a, NINF), maximum_reduceat)}
         [] f = "min" -> {plain(a, minimum_reduceat)}
         [] f = "nanmin" -> {plain(where_isnull(a, INF), minimum_reduceat)}
         [] f = "nanlen" -> {plain(counted(a), add_reduceat)}
         [] f = "mean" ->
                {GroupedCall(a, add_reduceat, mean_fill, None, None), count}
         [] f = "nanmean" ->
                {GroupedCall(where_isnull(a, Fin(0)), add_reduceat, mean_fill,
                             None, None), count}
         [] f \in {"quantile", "median", "quantile_unset"} ->
                {GroupedCall(a, quantile_or_topk_op(FALSE), fill, EffQ, None)}
         [] f \in {"nanquantile", "nanmedian"} ->
                {GroupedCall(a, quantile_or_topk_op(TRUE), fill, EffQ, None)}
         [] f = "topk" ->
                {GroupedCall(a, quantile_or_topk_op(TRUE), fill, None, karg)}

\* the sorted codes of the call hold each code of [0, size)
OnFastPath ==
    Called /\ prepared.status = "ok" /\ fast_path(prepared.group_idx, ngroups)

(***************************************************************************)
(* C15: fast path and scatter path agree. For every input whose sorted     *)
(* codes contain each code of [0, size) and every reduction, writing the   *)
(* per-run results directly into the preallocated output gives the same    *)
(* array as scattering them at positions uniques into an output            *)
(* initialized with fill_value.                                            *)
(***************************************************************************)
C15_FastEqualsScatter ==
    OnFastPath =>
        \A c \in GroupedCalls(func) :
            _np_grouped_op_via(TRUE, prepared.group_idx, c.array, c.op,
                               ngroups, c.fill_value, c.q, c.k)
            = _np_grouped_op_via(FALSE, prepared.group_idx, c.array, c.op,
                                 ngroups, c.fill_value, c.q, c.k)

\* a quantile came back on the fast path for two groups, one of them with a
\* missing value, from unsorted codes
C15_Witness ==
    /\ OnFastPath /\ Returned /\ func = "quantile" /\ ngroups = 2 /\ Unsorted
    /\ \E i \in 1..Len(data) : isnull(data[i])
    /\ fill = Fin(9)

(***************************************************************************)
(* C16: the q/k contract check rejects exactly the calls where both are    *)
(* unset. The call fails with a contract violation when neither q nor k    *)
(* is supplied, and every call that supplies a q in [0,1], q = 0 included, *)
(* or a non-zero integer k passes the check and returns a result.          *)
(***************************************************************************)
C16_ContractCheck ==
    /\ func = "quantile_unset" => result.status # "ok"
    /\ (func \in {"quantile", "nanquantile", "topk"}
            /\ ValidCodes(group_codes, ngroups) /\ group_codes # <<>>) =>
           result.status = "ok"

(***************************************************************************)
(* C17: the default skipna applies to float data only. When xarray_reduce  *)
(* is called with skipna=None and a string func, the wrapper switches to   *)
(* 'nan' + func only if the array has a float dtype; for every other dtype *)
(* (integer, complex, object, datetime64, timedelta64) the func name is    *)
(* passed to groupby_reduce unchanged.                                     *)
(***************************************************************************)
C17_DefaultSkipnaFloatOnly ==
    (xr_args # <<>> /\ xr_args.skipna = "None" /\ xr_args.func.str) =>
        \A c \in 1..Len(xr_calls) :
            xr_calls[c].kind # "f" => xr_calls[c].func = xr_args.func

\* some grouper is binned with an integer bin count or without edges
BadBinning ==
    \E b \in 1..Len(xr_args.isbins) :
        xr_args.isbins[b] /\ xr_args.expected_groups[b] \in {"int", "None"}

(***************************************************************************)
(* C18: an unsupported binning configuration is reported before any        *)
(* computation. When isbin is true for a grouper whose expected_groups     *)
(* entry is an integer bin count, or is missing, xarray_reduce raises a    *)
(* configuration error (NotImplementedError / ValueError) and              *)
(* groupby_reduce is never invoked on any array in that call.              *)
(***************************************************************************)
C18_BadBinningBeforeCompute ==
    (xr_args # <<>> /\ BadBinning) =>
        /\ xr_calls = <<>>
        /\ xr_pc \notin {"apply", "returned"}
        /\ xr_pc = "raised" => xr_error \in {"NotImplementedError", "ValueError"}

\* the loop raised at the second grouper, the first one being fine, for a
\* call whose other arguments are accepted
C18_Witness ==
    /\ xr_pc = "raised" /\ xr_i = 2
    /\ xr_args.isbins[2] /\ xr_args.expected_groups[2] = "int"
    /\ ~xr_args.isbins[1]
    /\ xr_error = "NotImplementedError"

(***************************************************************************)
(* C19: cohort partition validity. For every label-chunk bitmask the       *)
(* cohorts have pairwise disjoint chunk sets that together cover every     *)
(* chunk index, and every label present in some chunk of a cohort is in    *)
(* that cohort's label set; an all-zero bitmask yields a single cohort     *)
(* holding all chunks, with an empty label set.                            *)
(***************************************************************************)
C19_CohortsPartitionChunks ==
    co_pc \in {"merging", "returned"} =>
        /\ \A a, b \in co_cohorts : a # b => a.chunks \cap b.chunks = {}
        /\ UNION {c.chunks : c \in co_cohorts} = Chunks
        /\ \A c \in co_cohorts : \A ch \in c.chunks : co_bitmask[ch] \subseteq c.labels
        /\ (\A ch \in Chunks : co_bitmask[ch] = {}) =>
               co_cohorts = {Cohort(Chunks, {})}

\* discovery returned two cohorts, one of them merged from chunks with
\* unequal label sets
C19_Witness ==
    /\ co_pc = "returned"
    /\ Cardinality(co_cohorts) = 2
    /\ \E c \in co_cohorts : \E x, y \in c.chunks : co_bitmask[x] # co_bitmask[y]

\* no group has members on both sides of a chunk boundary of chunking
NoGroupSplit(chunking) == aligned(chunking, rc_labels)

\* a chunked array came back from rechunk_for_blockwise
Rechunked == rc_pc = "returned" /\ rc_chunks # Unchunked

C21_KernelIsPure ==
    [][data' = data /\ group_codes' = group_codes]_vars

\* C21 happens: a reduction that replaces missing values returned on sorted
\* codes, where ordered_array is the caller's own array, with a value missing
C21_Witness ==
    /\ func \in Replacing \cup Partitioning
    /\ result.status = "ok"
    /\ ordered_array_buffer(group_codes) = "data"
    /\ \E i \in 1..Len(data) : isnull(data[i])

\* what an output holds for group g: its position in the array, in every row
\* when the reduction takes q or k
OutputOf(out, g) ==
    IF func \in Partitioning THEN [r \in 1..Len(out) |-> out[r][g + 1]]
    ELSE out[g + 1]

\* the data arrays that differ from data only at elements of groups other
\* than g
ChangedElsewhere(g) ==
    {d \in [1..Len(data) -> Values] :
        \A i \in 1..Len(data) : group_codes[i] = g => d[i] = data[i]}

(***************************************************************************)
(* C22: group isolation. For every reduction of the kernel, quantile, topk *)
(* and ffill included, the output for group g depends only on the data     *)
(* whose code is g: with the same codes, fill_value and parameters, data   *)
(* that differs only at elements of other groups gives the same output for *)
(* g.                                                                      *)
(***************************************************************************)
C22_GroupIsolation ==
    /\ (Returned /\ ValidCodes(group_codes, ngroups)) =>
          \A g \in Groups : \A d \in ChangedElsewhere(g) :
              \A r \in reduce(func, group_codes, d, ngroups, fill, qarg, karg) :
                  r.status = "ok" => OutputOf(r.out, g) = OutputOf(result.out, g)
    /\ (Filled /\ ValidCodes(group_codes, ngroups)) =>
          \A g \in Groups : \A d \in ChangedElsewhere(g) :
              LET r == ffill(group_codes, d)
              IN r.status = "ok" =>
                    \A i \in 1..Len(data) :
                        group_codes[i] = g => r.out[i] = result.out[i]

====
